---- MODULE Spec2Model ----
(***************************************************************************)
(* Model of eia_storage_plot/fetch.py: the HTTP helper (_http_get), the    *)
(* schema normalizers, the fallback chain (_try_chain and the three        *)
(* fetch_* functions) and the weekly join (build_weekly_join).             *)
(*                                                                         *)
(* Four specifications share the variables:                                *)
(*   SpecHttp / FairSpecHttp  one call of _http_get                        *)
(*   SpecNorm                 the normalizers applied to raw payloads      *)
(*   SpecClip                 _clip applied to a frame, and to its result  *)
(*   Spec                     one call of build_weekly_join                *)
(***************************************************************************)
EXTENDS Integers, Sequences, FiniteSets, TLC

VARIABLES
    \* ---- _http_get ----
    hpc,        \* position in _http_get: "loop", "returned", "raised"
    retries,    \* the retries argument
    attempt,    \* the loop variable of `for attempt in range(retries)`
    last_exc,   \* the local last_exc
    history,    \* what requests.get produced, one entry per request issued
    sleeps,     \* the arguments of time.sleep, in order
    hresult,    \* the response returned or the exception raised
    \* ---- normalizers ----
    nkind,      \* which normalizer is applied
    npayload,   \* its raw payload
    nout,       \* what it returned or raised (Pending before the call)
    \* ---- _clip ----
    cdf,        \* the frame _clip is given
    cstart,     \* its start argument (a date string)
    cend,       \* its end argument (a date string)
    cout,       \* what _clip(cdf, cstart, cend) returned or raised
    cout2,      \* what _clip returned for the frame in cout, same window
    \* ---- build_weekly_join ----
    pc,         \* position in build_weekly_join
    start,      \* the start argument (a date string)
    end,        \* the end argument (a date string)
    idx,        \* _try_chain: index of the next callable of funcs
    invoked,    \* _try_chain: the callables called so far, in order
    produced,   \* _try_chain: what each called callable did
    chainRet,   \* _try_chain: what it returned (Pending while it runs)
    requests,   \* number of source reads issued so far
    salt,       \* fetch_salt_weekly's result
    us,         \* fetch_us_total_weekly's result
    hh,         \* fetch_henry_hub_daily's result
    hh_w,       \* the weekly price frame
    outcome     \* what build_weekly_join returned or raised

httpVars == <<hpc, retries, attempt, last_exc, history, sleeps, hresult>>
normVars == <<nkind, npayload, nout>>
joinVars == <<pc, start, end, idx, invoked, produced, chainRet, requests, salt, us, hh, hh_w, outcome>>
clipVars == <<cdf, cstart, cend, cout, cout2>>
vars == <<httpVars, normVars, clipVars, joinVars>>

\* Python's None where a number is expected (an attempt index, a status).
None == -1

\* last_exc = None, as a value comparable with the exception objects.
NoException == [type |-> "None", status |-> None, at |-> None]
\* Nothing returned or raised yet.
Pending == [status |-> "pending"]

(***************************************************************************)
(* _http_get                                                               *)
(***************************************************************************)

\* Default of the retries parameter.
DefaultRetries == 6
\* backoff_base = 1.7, kept as the fraction BackoffNum / BackoffDen.
BackoffNum == 17
BackoffDen == 10

\* Status codes a server can answer with (one per class the code tells apart,
\* two of the permanent 4xx class) and the network-level exceptions of requests.
Statuses == {200, 404, 403, 429, 503}
NetExceptions == {"ConnectionError"}

Outcomes ==
    [kind : {"status"}, code : Statuses] \cup [kind : {"exc"}, name : NetExceptions]

RECURSIVE Pow(_, _)
Pow(b, n) == IF n = 0 THEN 1 ELSE b * Pow(b, n - 1)

\* wait = backoff_base ** attempt, as <<numerator, denominator>>.
Wait(a) == <<Pow(BackoffNum, a), Pow(BackoffDen, a)>>

\* r.status_code >= 500 or r.status_code == 429
RetryStatus(code) == code >= 500 \/ code = 429

\* r.raise_for_status(): raises HTTPError for 4xx and 5xx.
RaisesForStatus(code) == code >= 400 /\ code < 600

\* The exception objects: each remembers the attempt that raised it.
HTTPError(code, a) == [type |-> "HTTPError", status |-> code, at |-> a]
NetError(name, a) == [type |-> name, status |-> None, at |-> a]
UnknownHTTPError == [type |-> "RuntimeError", status |-> None, at |-> None]

HttpInit ==
    /\ hpc = "loop"
    /\ retries \in 0..DefaultRetries
    /\ attempt = 0
    /\ last_exc = NoException
    /\ history = <<>>
    /\ sleeps = <<>>
    /\ hresult = Pending

\* range(retries) still has a value for the loop variable.
LoopContinuesBad(a, r) == a <= r
LoopContinues(a, r) == a < r

\* One iteration whose response has a 5xx or 429 status: sleep and continue.
AttemptRetryStatus ==
    /\ hpc = "loop"
    /\ LoopContinues(attempt, retries)
    /\ \E code \in Statuses :
        /\ RetryStatus(code)
        /\ history' = Append(history, [kind |-> "status", code |-> code])
    /\ sleeps' = Append(sleeps, Wait(attempt))
    /\ attempt' = attempt + 1
    /\ UNCHANGED <<normVars, clipVars, joinVars, hpc, retries, last_exc, hresult>>

\* One iteration whose response passes raise_for_status: return it.
AttemptReturns ==
    /\ hpc = "loop"
    /\ LoopContinues(attempt, retries)
    /\ \E code \in Statuses :
        /\ ~RetryStatus(code)
        /\ ~RaisesForStatus(code)
        /\ history' = Append(history, [kind |-> "status", code |-> code])
        /\ hresult' = [status |-> "returned", response |-> code, at |-> attempt]
    /\ hpc' = "returned"
    /\ UNCHANGED <<normVars, clipVars, joinVars, retries, attempt, last_exc, sleeps>>

\* One iteration in which raise_for_status raises HTTPError (a RequestException):
\* the except clause stores it, sleeps and the loop goes on.
AttemptHTTPError ==
    /\ hpc = "loop"
    /\ LoopContinues(attempt, retries)
    /\ \E code \in Statuses :
        /\ ~RetryStatus(code)
        /\ RaisesForStatus(code)
        /\ history' = Append(history, [kind |-> "status", code |-> code])
        /\ last_exc' = HTTPError(code, attempt)
    /\ sleeps' = Append(sleeps, Wait(attempt))
    /\ attempt' = attempt + 1
    /\ UNCHANGED <<normVars, clipVars, joinVars, hpc, retries, hresult>>

\* One iteration in which requests.get itself raises a RequestException.
AttemptNetException ==
    /\ hpc = "loop"
    /\ LoopContinues(attempt, retries)
    /\ \E name \in NetExceptions :
        /\ history' = Append(history, [kind |-> "exc", name |-> name])
        /\ last_exc' = NetError(name, attempt)
    /\ sleeps' = Append(sleeps, Wait(attempt))
    /\ attempt' = attempt + 1
    /\ UNCHANGED <<normVars, clipVars, joinVars, hpc, retries, hresult>>

\* The loop is over: raise last_exc, or RuntimeError when there is none.
HttpExhausted ==
    /\ hpc = "loop"
    /\ ~LoopContinues(attempt, retries)
    /\ hpc' = "raised"
    /\ hresult' = [status |-> "raised",
                   error |-> IF last_exc # NoException THEN last_exc ELSE UnknownHTTPError]
    /\ UNCHANGED <<normVars, clipVars, joinVars, retries, attempt, last_exc, history, sleeps>>

(***************************************************************************)
(* Cells, parsing and frames                                               *)
(***************************************************************************)

\* What errors="coerce" leaves for a cell that does not parse; every real day
\* and every real value of the model is >= 0.
NaT == -1
NaN == -1
\* The day pandas gives a bare number read as a date (epoch offset in ns).
EpochDay == 0

\* A raw cell: a date string, a number, any other text, or null.
DateCell(d) == [kind |-> "date", day |-> d]
NumCell(x) == [kind |-> "num", val |-> x]
TextCell == [kind |-> "text"]
NullCell == [kind |-> "null"]

\* pd.to_datetime(cell, errors="coerce")
ToDatetime(c) ==
    CASE c.kind = "date" -> c.day
      [] c.kind = "num" -> EpochDay
      [] OTHER -> NaT

\* pd.to_numeric(cell, errors="coerce")
ToNumeric(c) ==
    CASE c.kind = "num" -> c.val
      [] OTHER -> NaN

Row(p, v) == [period |-> p, value |-> v]

\* pd.DataFrame(columns=["period", "value"])
EmptyFrame == <<>>

\* df.dropna(subset=["period"])
DropNaPeriod(df) == SelectSeq(df, LAMBDA r : r.period # NaT)

\* df.dropna(subset=["period", "value"])
DropNaBoth(df) == SelectSeq(df, LAMBDA r : r.period # NaT /\ r.value # NaN)

RECURSIVE InsertByPeriod(_, _)
InsertByPeriod(sorted, r) ==
    IF sorted = <<>> THEN <<r>>
    ELSE IF sorted[Len(sorted)].period <= r.period THEN Append(sorted, r)
    ELSE Append(InsertByPeriod(SubSeq(sorted, 1, Len(sorted) - 1), r), sorted[Len(sorted)])

\* df.sort_values("period").reset_index(drop=True); the frame holds no NaT here.
\* Rows of equal period keep their input order.
RECURSIVE SortByPeriod(_)
SortByPeriod(df) ==
    IF df = <<>> THEN <<>>
    ELSE InsertByPeriod(SortByPeriod(SubSeq(df, 1, Len(df) - 1)), df[Len(df)])

Returned(df) == [status |-> "ok", df |-> df]
Raised(err) == [status |-> "raised", error |-> err]

(***************************************************************************)
(* Normalizers                                                             *)
(***************************************************************************)

\* df["period"] = to_datetime(...); df["value"] = to_numeric(...), row by row.
Coerce(data) == [i \in 1..Len(data) |-> Row(ToDatetime(data[i][1]), ToNumeric(data[i][2]))]

\* _df_from_v1_series: resp_json is [series |-> <<[data |-> rows]>>], rows a
\* sequence of <<period cell, value cell>>.
DfFromV1Series(resp_json) ==
    IF resp_json.series = <<>> THEN EmptyFrame
    ELSE IF resp_json.series[1].data = <<>> THEN EmptyFrame
    ELSE SortByPeriod(DropNaPeriod(Coerce(resp_json.series[1].data)))

\* _df_from_v2_price: resp_json is [response |-> [data |-> records]], each
\* record bearing the fields period and value.
DfFromV2Price(resp_json) ==
    LET data == resp_json.response.data
    IN IF data = <<>> THEN EmptyFrame
       ELSE SortByPeriod(DropNaBoth(
                [i \in 1..Len(data) |->
                    Row(ToDatetime(data[i].period), ToNumeric(data[i].value))]))

(***************************************************************************)
(* Column-pair search of the spreadsheet and HTML normalizers.  A grid is   *)
(* a sequence of columns (column j of the code is element j + 1), each a    *)
(* sequence of cells of the same length.                                    *)
(***************************************************************************)

\* The plausibility floor: `if score >= 10`.
MinScore == 10

NRows(grid) == IF grid = <<>> THEN 0 ELSE Len(grid[1])

\* pd.DataFrame({"period": to_datetime(col date_idx), "value": to_numeric(col
\* val_idx)}).dropna(subset=["period", "value"]), with 0-based column indices.
PairFrame(grid, date_idx, val_idx) ==
    DropNaBoth([i \in 1..NRows(grid) |->
        Row(ToDatetime(grid[date_idx + 1][i]), ToNumeric(grid[val_idx + 1][i]))])

\* itertools.product(range(ncols), repeat=2), in its order of generation.
PairOrder(ncols) ==
    [k \in 1..(ncols * ncols) |-> <<(k - 1) \div ncols, (k - 1) % ncols>>]

\* best = None
NoBest == [none |-> TRUE, score |-> 0, df |-> <<>>]

\* `score >= best[0]` in place of `score > best[0]`: the last of equal scores wins.
ConsiderPairLastWins(best, grid, pair) ==
    IF pair[1] = pair[2] THEN best
    ELSE LET d == PairFrame(grid, pair[1], pair[2])
             score == Len(d)
         IN IF score >= MinScore
            THEN IF best.none \/ score >= best.score
                 THEN [none |-> FALSE, score |-> score, df |-> SortByPeriod(d)]
                 ELSE best
            ELSE best

\* One iteration of the pair loop.
ConsiderPair(best, grid, pair) ==
    IF pair[1] = pair[2] THEN best
    ELSE LET d == PairFrame(grid, pair[1], pair[2])
             score == Len(d)
         IN IF score >= MinScore
            THEN IF best.none \/ score > best.score
                 THEN [none |-> FALSE, score |-> score, df |-> SortByPeriod(d)]
                 ELSE best
            ELSE best

RECURSIVE ScanPairs(_, _, _, _)
ScanPairs(best, grid, pairs, k) ==
    IF k > Len(pairs) THEN best
    ELSE ScanPairs(ConsiderPair(best, grid, pairs[k]), grid, pairs, k + 1)

\* The pair loop over one grid, starting from best.
ScanGrid(best, grid) == ScanPairs(best, grid, PairOrder(Len(grid)), 1)

\* _df_from_hist_xls, from the grid read_excel produced.
DfFromHistXls(raw) ==
    LET best == ScanGrid(NoBest, raw)
    IN IF best.none
       THEN IF Len(raw) < 2 THEN Raised("IndexError")
            ELSE Returned(SortByPeriod(PairFrame(raw, 0, 1)))
       ELSE Returned(best.df)

RECURSIVE ScanTables(_, _, _)
ScanTables(best, tables, k) ==
    IF k > Len(tables) THEN best
    ELSE ScanTables(ScanGrid(best, tables[k]), tables, k + 1)

\* _df_from_hist_html, from the tables of the page; read_html raises
\* ValueError when the page holds no table.
DfFromHistHtml(tables) ==
    IF tables = <<>> THEN Raised("ValueError")
    ELSE LET best == ScanTables(NoBest, tables, 1)
         IN IF best.none THEN Returned(EmptyFrame) ELSE Returned(best.df)

(***************************************************************************)
(* Payloads the normalizers are applied to                                 *)
(***************************************************************************)

\* Longest v1 / v2 data list.
MaxRows == 2
\* Rows of every generated grid, and the widest grid.
GridRows == 15
MaxCols == 3
\* Most tables on one HTML page.
MaxTables == 2

SeqsUpTo(S, n) == UNION {[1..k -> S] : k \in 0..n}

PeriodCells == {DateCell(1), DateCell(2), TextCell, NullCell}
ValueCells == {NumCell(5), TextCell, NullCell}

V1Payloads ==
    {[series |-> <<>>]} \cup
    {[series |-> <<[data |-> d]>>] : d \in SeqsUpTo(PeriodCells \X ValueCells, MaxRows)}

V2Payloads ==
    {[response |-> [data |-> d]] :
        d \in SeqsUpTo([period : PeriodCells, value : ValueCells], MaxRows)}

\* A column whose first `good` cells are dates (latest first) or numbers and
\* whose other cells are text.
Column(kind, good) ==
    [i \in 1..GridRows |->
        IF i > good THEN TextCell
        ELSE IF kind = "date" THEN DateCell(GridRows + 1 - i)
        ELSE NumCell(i)]

GoodCounts == {0, MinScore - 1, MinScore, GridRows}
ColumnPool == {Column(kind, good) : kind \in {"date", "num"}, good \in GoodCounts}

Grids == SeqsUpTo(ColumnPool, MaxCols)
\* The tables of a page are narrow: up to two columns, each all good, at the
\* floor or one short of it.
HtmlWidths == {0, 1, 2}
HtmlColumnPool ==
    {Column(kind, good) : kind \in {"date", "num"}, good \in {MinScore - 1, MinScore, GridRows}}
HtmlTables == UNION {[1..w -> HtmlColumnPool] : w \in HtmlWidths}
HtmlPages == SeqsUpTo(HtmlTables, MaxTables)

NormInit ==
    /\ nkind \in {"v1", "v2", "xls", "html"}
    /\ npayload \in CASE nkind = "v1" -> V1Payloads
                      [] nkind = "v2" -> V2Payloads
                      [] nkind = "xls" -> Grids
                      [] nkind = "html" -> HtmlPages
    /\ nout = Pending

NormalizeV1 ==
    /\ nkind = "v1" /\ nout = Pending
    /\ nout' = Returned(DfFromV1Series(npayload))
    /\ UNCHANGED <<httpVars, clipVars, joinVars, nkind, npayload>>

NormalizeV2 ==
    /\ nkind = "v2" /\ nout = Pending
    /\ nout' = Returned(DfFromV2Price(npayload))
    /\ UNCHANGED <<httpVars, clipVars, joinVars, nkind, npayload>>

NormalizeXls ==
    /\ nkind = "xls" /\ nout = Pending
    /\ nout' = DfFromHistXls(npayload)
    /\ UNCHANGED <<httpVars, clipVars, joinVars, nkind, npayload>>

NormalizeHtml ==
    /\ nkind = "html" /\ nout = Pending
    /\ nout' = DfFromHistHtml(npayload)
    /\ UNCHANGED <<httpVars, clipVars, joinVars, nkind, npayload>>

(***************************************************************************)
(* Clipping, weekly resampling, merging                                    *)
(***************************************************************************)

\* A date string parses unless it is no date at all; pd.to_datetime(start)
\* is called without errors="coerce" and raises on such a string.
ParsesAsDate(str) == str.kind = "date"

\* `df["period"] < e` in place of `<=`.
ClipBeforeEnd(df, s, e) == SelectSeq(df, LAMBDA r : r.period >= s /\ r.period < e)
\* _clip, once start and end have parsed.
Clip(df, s, e) == SelectSeq(df, LAMBDA r : r.period >= s /\ r.period <= e)

\* _clip(df, start, end): pd.to_datetime raises on a string that is no date.
ClipCall(df, startStr, endStr) ==
    IF ParsesAsDate(startStr) /\ ParsesAsDate(endStr)
    THEN Returned(Clip(df, ToDatetime(startStr), ToDatetime(endStr)))
    ELSE Raised("ValueError")

\* Days the frames and windows given to _clip range over, and the longest frame.
ClipDays == 4
MaxClipRows == 3

\* The frames _clip is given come from the normalizers: ascending by period,
\* no NaT, possibly several rows of one period.
ClipRows == {Row(d, v) : d \in 1..ClipDays, v \in {5, 6}}
ClipFrames ==
    {f \in SeqsUpTo(ClipRows, MaxClipRows) :
        \A i \in 1..(Len(f) - 1) : f[i].period <= f[i + 1].period}
ClipStrings == {DateCell(d) : d \in 1..ClipDays} \cup {TextCell}

ClipInit ==
    /\ cdf \in ClipFrames
    /\ cstart \in ClipStrings
    /\ cend \in ClipStrings
    /\ cout = Pending
    /\ cout2 = Pending

\* _clip(df, start, end)
ClipOnce ==
    /\ cout = Pending
    /\ cout' = ClipCall(cdf, cstart, cend)
    /\ UNCHANGED <<httpVars, normVars, joinVars, cdf, cstart, cend, cout2>>

\* _clip of the frame the first call returned, with the same window.
ClipAgain ==
    /\ cout # Pending /\ cout.status = "ok"
    /\ cout2 = Pending
    /\ cout2' = ClipCall(cout.df, cstart, cend)
    /\ UNCHANGED <<httpVars, normVars, joinVars, cdf, cstart, cend, cout>>

\* Days are numbered so that the Fridays are the multiples of DaysPerWeek.
DaysPerWeek == 7

\* The "W-FRI" bin of a day: the first Friday on or after it.
Anchor(d) == ((d + DaysPerWeek - 1) \div DaysPerWeek) * DaysPerWeek

RECURSIVE SumValues(_)
SumValues(rows) ==
    IF rows = <<>> THEN 0 ELSE rows[1].value + SumValues(Tail(rows))

\* mean() of one bin: NaN values are skipped; the mean is kept as the exact
\* fraction sum / n, and n = 0 is NaN.
MeanOf(rows) ==
    LET real == SelectSeq(rows, LAMBDA r : r.value # NaN)
    IN [sum |-> SumValues(real), n |-> Len(real)]

\* k-th bin label of a resampled frame whose first label is `first`.
BinLabel(first, k) == first + (k - 1) * DaysPerWeek

\* df.set_index("period").resample("W-FRI").mean().reset_index() of a frame
\* sorted by period: one row per bin from the first label to the last.
ResampleWeekly(df) ==
    IF df = <<>> THEN <<>>
    ELSE LET first == Anchor(df[1].period)
             last == Anchor(df[Len(df)].period)
             nbins == (last - first) \div DaysPerWeek + 1
         IN [k \in 1..nbins |->
                Row(BinLabel(first, k),
                    MeanOf(SelectSeq(df, LAMBDA r : Anchor(r.period) = BinLabel(first, k))))]

NaNMean == [sum |-> 0, n |-> 0]

\* how="left" in place of how="inner": a left row without a match is kept and
\* the right columns are NaN.
RECURSIVE MergeLeft(_, _)
MergeLeft(left, right) ==
    IF left = <<>> THEN <<>>
    ELSE LET matches == SelectSeq(right, LAMBDA r : r.period = left[1].period)
         IN (IF matches = <<>>
             THEN <<[l |-> left[1], r |-> Row(left[1].period, NaNMean)]>>
             ELSE [j \in 1..Len(matches) |-> [l |-> left[1], r |-> matches[j]]])
            \o MergeLeft(Tail(left), right)

\* left.merge(right, on="period", how="inner"): the rows of left in order, each
\* paired with every row of right of the same period.
RECURSIVE Merge(_, _)
Merge(left, right) ==
    IF left = <<>> THEN <<>>
    ELSE LET matches == SelectSeq(right, LAMBDA r : r.period = left[1].period)
         IN [j \in 1..Len(matches) |-> [l |-> left[1], r |-> matches[j]]]
            \o Merge(Tail(left), right)

\* merged = salt.merge(us, ...).merge(hh_w, ...): columns period, salt_bcf,
\* us_bcf and the price column.
MergeAll(saltDf, usDf, priceDf) ==
    LET first == Merge(saltDf, usDf)
        two == [i \in 1..Len(first) |->
                   [period |-> first[i].l.period, salt_bcf |-> first[i].l.value,
                    us_bcf |-> first[i].r.value]]
        second == Merge(two, priceDf)
    IN [i \in 1..Len(second) |->
           [period |-> second[i].l.period, salt_bcf |-> second[i].l.salt_bcf,
            us_bcf |-> second[i].l.us_bcf, price |-> second[i].r.value]]

RECURSIVE MinPeriod(_)
MinPeriod(df) ==
    IF Len(df) = 1 THEN df[1].period
    ELSE LET m == MinPeriod(Tail(df)) IN IF df[1].period < m THEN df[1].period ELSE m

RECURSIVE MaxPeriod(_)
MaxPeriod(df) ==
    IF Len(df) = 1 THEN df[1].period
    ELSE LET m == MaxPeriod(Tail(df)) IN IF df[1].period > m THEN df[1].period ELSE m

\* _daterange_summary
DaterangeSummary(df) ==
    IF df = <<>> THEN [empty |-> TRUE, min |-> None, max |-> None, rows |-> 0]
    ELSE [empty |-> FALSE, min |-> MinPeriod(df), max |-> MaxPeriod(df), rows |-> Len(df)]

(***************************************************************************)
(* build_weekly_join and the fallback chains                               *)
(***************************************************************************)

\* Weeks of data the sources may hold; week w ends on day w * DaysPerWeek.
NumWeeks == 3

LastDay == NumWeeks * DaysPerWeek
Fridays == {w * DaysPerWeek : w \in 1..NumWeeks}
\* Days with a daily price: every Friday and the Thursday of the first week.
PriceDays == Fridays \cup {DaysPerWeek - 1}

\* The frame, ascending by period, with a row for each day of `days`.
RECURSIVE FrameOf(_, _, _)
FrameOf(days, d, base) ==
    IF d > LastDay THEN <<>>
    ELSE (IF d \in days THEN <<Row(d, base + d)>> ELSE <<>>) \o FrameOf(days, d + 1, base)

\* What a source of each series can hold before clipping.
SourceFrames(series) ==
    CASE series = "salt" -> {FrameOf(D, 1, 50) : D \in SUBSET Fridays}
      [] series = "us" -> {FrameOf(D, 1, 3000) : D \in SUBSET Fridays}
      [] series = "hh" -> {FrameOf(D, 1, 0) : D \in SUBSET PriceDays}

\* The start and end strings build_weekly_join may be given.
StartStrings == {DateCell(1), DateCell(DaysPerWeek + 1), TextCell}
EndStrings == {DateCell(LastDay), TextCell}

\* The callables each fetch_* function hands to _try_chain, in order.
Chain(series) ==
    IF series = "hh" THEN <<"v2", "v1", "xls", "html">> ELSE <<"v1", "xls", "html">>

\* `df is not None and not df.empty`
IsUsableAlways(df) == TRUE
IsUsable(df) == df # <<>>

\* `for fn in funcs`: the callable the loop takes after the one at index i.
NextCallable(i) == i + 1

\* What _try_chain hands back once the loop is over.
ChainExhaustedResult == Returned(EmptyFrame)

\* `if merged.empty`
MergedEmptyNever(merged) == FALSE
MergedEmpty(merged) == merged = <<>>

NoPrices == [column |-> "henryhub", rows |-> <<>>]

JoinInit ==
    /\ pc = "salt"
    /\ start \in StartStrings
    /\ end \in EndStrings
    /\ idx = 1
    /\ invoked = <<>>
    /\ produced = <<>>
    /\ chainRet = Pending
    /\ requests = 0
    /\ salt = <<>>
    /\ us = <<>>
    /\ hh = <<>>
    /\ hh_w = NoPrices
    /\ outcome = Pending

ChainRunning == pc \in {"salt", "us", "hh"} /\ chainRet = Pending

\* fn() raises inside the fetch (transport failure, unreadable payload).
CallableFetchRaises ==
    /\ ChainRunning
    /\ idx <= Len(Chain(pc))
    /\ requests' = requests + 1
    /\ invoked' = Append(invoked, Chain(pc)[idx])
    /\ produced' = Append(produced, [kind |-> "raised", error |-> "FetchError"])
    /\ idx' = NextCallable(idx)
    /\ UNCHANGED <<httpVars, normVars, clipVars, pc, start, end, chainRet, salt, us, hh, hh_w, outcome>>

\* The fetch succeeds and _clip raises on a start or end that is no date; the
\* except clause of _try_chain takes it like any other failure.
CallableClipRaises ==
    /\ ChainRunning
    /\ idx <= Len(Chain(pc))
    /\ ~(ParsesAsDate(start) /\ ParsesAsDate(end))
    /\ requests' = requests + 1
    /\ invoked' = Append(invoked, Chain(pc)[idx])
    /\ produced' = Append(produced, [kind |-> "raised", error |-> "ValueError"])
    /\ idx' = NextCallable(idx)
    /\ UNCHANGED <<httpVars, normVars, clipVars, pc, start, end, chainRet, salt, us, hh, hh_w, outcome>>

\* fn() returns the clipped frame: _try_chain returns it if it is not empty and
\* goes on to the next callable otherwise.
CallableYields ==
    /\ ChainRunning
    /\ idx <= Len(Chain(pc))
    /\ ParsesAsDate(start) /\ ParsesAsDate(end)
    /\ \E F \in SourceFrames(pc) :
        LET df == Clip(F, ToDatetime(start), ToDatetime(end))
        IN /\ produced' = Append(produced, [kind |-> "frame", df |-> df])
           /\ IF IsUsable(df)
              THEN chainRet' = Returned(df) /\ idx' = idx
              ELSE chainRet' = chainRet /\ idx' = NextCallable(idx)
    /\ requests' = requests + 1
    /\ invoked' = Append(invoked, Chain(pc)[idx])
    /\ UNCHANGED <<httpVars, normVars, clipVars, pc, start, end, salt, us, hh, hh_w, outcome>>

\* No callable is left: _try_chain returns an empty frame.
ChainExhausted ==
    /\ ChainRunning
    /\ idx > Len(Chain(pc))
    /\ chainRet' = ChainExhaustedResult
    /\ UNCHANGED <<httpVars, normVars, clipVars, pc, start, end, idx, invoked, produced, requests,
                   salt, us, hh, hh_w, outcome>>

\* fetch_salt_weekly / fetch_us_total_weekly / fetch_henry_hub_daily rename the
\* value column of what _try_chain returned and hand it to build_weekly_join.
FetchReturns ==
    /\ pc \in {"salt", "us", "hh"}
    /\ chainRet # Pending
    /\ salt' = IF pc = "salt" THEN chainRet.df ELSE salt
    /\ us' = IF pc = "us" THEN chainRet.df ELSE us
    /\ hh' = IF pc = "hh" THEN chainRet.df ELSE hh
    /\ pc' = CASE pc = "salt" -> "us" [] pc = "us" -> "hh" [] pc = "hh" -> "align"
    /\ idx' = 1
    /\ invoked' = <<>>
    /\ produced' = <<>>
    /\ chainRet' = Pending
    /\ UNCHANGED <<httpVars, normVars, clipVars, start, end, requests, hh_w, outcome>>

\* `if not hh.empty`: the daily prices are resampled to weeks ending Friday.
AlignResample ==
    /\ pc = "align"
    /\ hh # <<>>
    /\ hh_w' = [column |-> "henryhub", rows |-> ResampleWeekly(hh)]
    /\ pc' = "merge"
    /\ UNCHANGED <<httpVars, normVars, clipVars, start, end, idx, invoked, produced, chainRet,
                   requests, salt, us, hh, outcome>>

\* hh is empty and the second read of the v2 endpoint raises, or _clip raises
\* on its frame: the except clause keeps the empty hh.
AlignRepullRaises ==
    /\ pc = "align"
    /\ hh = <<>>
    /\ requests' = requests + 1
    /\ hh_w' = NoPrices
    /\ pc' = "merge"
    /\ UNCHANGED <<httpVars, normVars, clipVars, start, end, idx, invoked, produced, chainRet,
                   salt, us, hh, outcome>>

\* hh is empty and the second read of the v2 endpoint returns a frame.
AlignRepullYields ==
    /\ pc = "align"
    /\ hh = <<>>
    /\ ParsesAsDate(start) /\ ParsesAsDate(end)
    /\ requests' = requests + 1
    /\ \E hh2 \in SourceFrames("hh") :
        hh_w' = IF hh2 # <<>>
                THEN [column |-> "value",
                      rows |-> ResampleWeekly(Clip(hh2, ToDatetime(start), ToDatetime(end)))]
                ELSE NoPrices
    /\ pc' = "merge"
    /\ UNCHANGED <<httpVars, normVars, clipVars, start, end, idx, invoked, produced, chainRet,
                   salt, us, hh, outcome>>

\* The two inner merges, the emptiness check and the return.
MergeAndReturn ==
    /\ pc = "merge"
    /\ LET merged == MergeAll(salt, us, hh_w.rows)
       IN outcome' =
            IF MergedEmpty(merged)
            THEN [status |-> "raised",
                  error |-> [type |-> "RuntimeError",
                             salt |-> DaterangeSummary(salt),
                             us |-> DaterangeSummary(us),
                             hh_w |-> DaterangeSummary(hh_w.rows),
                             clip |-> <<start, end>>]]
            ELSE [status |-> "ok", df |-> merged, priceColumn |-> hh_w.column]
    /\ pc' = "done"
    /\ UNCHANGED <<httpVars, normVars, clipVars, start, end, idx, invoked, produced, chainRet,
                   requests, salt, us, hh, hh_w>>

(***************************************************************************)
(* Specifications                                                          *)
(***************************************************************************)

\* The parts a specification leaves idle.
HttpIdle ==
    /\ hpc = "idle" /\ retries = 0 /\ attempt = 0 /\ last_exc = NoException
    /\ history = <<>> /\ sleeps = <<>> /\ hresult = Pending
NormIdle == nkind = "idle" /\ npayload = <<>> /\ nout = Pending
JoinIdle ==
    /\ pc = "idle" /\ start = TextCell /\ end = TextCell /\ idx = 1
    /\ invoked = <<>> /\ produced = <<>> /\ chainRet = Pending /\ requests = 0
    /\ salt = <<>> /\ us = <<>> /\ hh = <<>> /\ hh_w = NoPrices /\ outcome = Pending

ClipIdle ==
    /\ cdf = <<>> /\ cstart = TextCell /\ cend = TextCell
    /\ cout = Pending /\ cout2 = Pending

InitHttp == HttpInit /\ NormIdle /\ ClipIdle /\ JoinIdle
NextHttp ==
    \/ AttemptRetryStatus
    \/ AttemptReturns
    \/ AttemptHTTPError
    \/ AttemptNetException
    \/ HttpExhausted
SpecHttp == InitHttp /\ [][NextHttp]_vars
\* The loop of _http_get runs on by itself: requests.get has a timeout and
\* time.sleep returns.
FairSpecHttp == SpecHttp /\ WF_vars(NextHttp)

InitNorm == NormInit /\ HttpIdle /\ ClipIdle /\ JoinIdle
NextNorm ==
    \/ NormalizeV1
    \/ NormalizeV2
    \/ NormalizeXls
    \/ NormalizeHtml
SpecNorm == InitNorm /\ [][NextNorm]_vars

InitClip == ClipInit /\ HttpIdle /\ NormIdle /\ JoinIdle
NextClip ==
    \/ ClipOnce
    \/ ClipAgain
SpecClip == InitClip /\ [][NextClip]_vars

Init == JoinInit /\ HttpIdle /\ NormIdle /\ ClipIdle
Next ==
    \/ CallableFetchRaises
    \/ CallableClipRaises
    \/ CallableYields
    \/ ChainExhausted
    \/ FetchReturns
    \/ AlignResample
    \/ AlignRepullRaises
    \/ AlignRepullYields
    \/ MergeAndReturn
Spec == Init /\ [][Next]_vars

(***************************************************************************)
(* Properties                                                              *)
(***************************************************************************)

\* A callable of the chain failed: it raised or it returned an empty frame.
Failed(e) == IF e.kind = "raised" THEN TRUE ELSE e.df = <<>>

InChain == pc \in {"salt", "us", "hh"}

\* C1: _try_chain calls its callables strictly in the given order, goes on to
\* the next one exactly when the current one raised or returned an empty frame,
\* returns the first non-empty frame unchanged and calls nothing after it.
C1_ChainOrder ==
    InChain =>
        LET chain == Chain(pc)
            n == Len(invoked)
        IN /\ n <= Len(chain)
           /\ Len(produced) = n
           /\ invoked = SubSeq(chain, 1, n)
           /\ \A i \in 1..(n - 1) : Failed(produced[i])
           /\ chainRet = Pending =>
                /\ idx = n + 1
                /\ \A i \in 1..n : Failed(produced[i])
           /\ (n > 0 /\ ~Failed(produced[n])) => chainRet = Returned(produced[n].df)
           /\ (chainRet # Pending /\ (n = 0 \/ Failed(produced[n]))) => n = Len(chain)

\* C1 witness: the first callable raised, the second returned an empty frame,
\* the third returned rows, and the fourth of the price chain was never called.
C1_Witness ==
    /\ pc = "hh"
    /\ Len(invoked) = 3
    /\ produced[1].kind = "raised"
    /\ produced[2] = [kind |-> "frame", df |-> <<>>]
    /\ chainRet # Pending
    /\ chainRet.df = produced[3].df
    /\ Len(chainRet.df) >= 2

\* C2: when every callable of a chain raised or returned an empty frame,
\* _try_chain raises SourceChainExhausted and returns no empty frame.
C2_ExhaustionRaises ==
    (InChain /\ chainRet # Pending /\ \A i \in 1..Len(produced) : Failed(produced[i])) =>
        /\ chainRet.status = "raised"
        /\ chainRet.error = "SourceChainExhausted"

\* C3: after a 4xx response other than 429, _http_get issues no further
\* request and no sleep, and the failure is raised at once.
C3_NoRetryOnClientError ==
    \A i \in 1..Len(history) :
        (/\ history[i].kind = "status"
         /\ history[i].code >= 400 /\ history[i].code < 500
         /\ history[i].code # 429) =>
            /\ i = Len(history)
            /\ Len(sleeps) = i - 1
            /\ hpc = "raised"
            /\ hresult.error = HTTPError(history[i].code, i - 1)

\* C4: when the attempts are used up, the exception _http_get raises carries
\* the error seen on the last attempt.
C4_RaisesLastObserved ==
    (hpc = "raised" /\ retries > 0 /\ Len(history) = retries) =>
        LET seen == history[Len(history)]
        IN /\ hresult.status = "raised"
           /\ hresult.error.at = retries - 1
           /\ IF seen.kind = "status"
              THEN hresult.error.status = seen.code
              ELSE hresult.error.type = seen.name

\* A response or exception after which the code is to ask again.
Retryable(o) == IF o.kind = "exc" THEN TRUE ELSE o.code >= 500 \/ o.code = 429
\* A response that is a success.
Success(o) == IF o.kind = "exc" THEN FALSE ELSE o.code < 400

C5_Bounded ==
    /\ Len(history) <= retries
    /\ hpc = "loop" => Len(history) = attempt
    /\ hpc = "returned" =>
        /\ Success(history[Len(history)])
        /\ \A i \in 1..(Len(history) - 1) : ~Success(history[i])
        /\ hresult = [status |-> "returned", response |-> history[Len(history)].code,
                      at |-> Len(history) - 1]

C5_Reissues ==
    /\ (/\ hpc = "loop" /\ history # <<>>
        /\ Retryable(history[Len(history)])
        /\ Len(history) < retries) => Len(history') = Len(history) + 1
    /\ hpc # "loop" => history' = history

\* C5: _http_get asks again after a 5xx, a 429 or a network exception while
\* fewer than `retries` requests were made, returns the first successful
\* response without a further request, issues at most `retries` requests and
\* always comes to an end.
C5_RetryTerminates ==
    /\ []C5_Bounded
    /\ [][C5_Reissues]_vars
    /\ <>(hpc \in {"returned", "raised"})

\* C5 witness: a call that returned on its last allowed request, after a 5xx,
\* a 429 and a network exception.
C5_Witness ==
    /\ hpc = "returned"
    /\ retries = DefaultRetries
    /\ Len(history) = retries
    /\ \E i, j, k \in 1..Len(history) :
        /\ history[i] = [kind |-> "status", code |-> 503]
        /\ history[j] = [kind |-> "status", code |-> 429]
        /\ history[k].kind = "exc"

Periods(df) == {df[i].period : i \in 1..Len(df)}

Summarises(sm, df) ==
    IF df = <<>> THEN sm.empty
    ELSE /\ ~sm.empty
         /\ sm.rows = Len(df)
         /\ sm.min \in Periods(df) /\ sm.max \in Periods(df)
         /\ \A p \in Periods(df) : sm.min <= p /\ p <= sm.max

C8_FailsFast ==
    ~(ParsesAsDate(start) /\ ParsesAsDate(end)) =>
        /\ requests = 0
        /\ \A i \in 1..Len(produced) : produced[i] # [kind |-> "raised", error |-> "ValueError"]
        /\ pc = "done" => (outcome.status = "raised" /\ outcome.error.type = "ValueError")

\* The rows of the daily frame that fall in the week ending on day w.
WeekRows(df, w) == SelectSeq(df, LAMBDA r : Anchor(r.period) = w)

\* C9: the weekly price frame has exactly one row for each week ending Friday
\* that holds a daily price, its value the mean of that week's prices, and no
\* row for a week without a daily price.
C9_WeeklyMeans ==
    (pc \in {"merge", "done"} /\ hh # <<>>) =>
        LET rows == hh_w.rows
            weeks == {Anchor(p) : p \in Periods(hh)}
        IN /\ \A w \in weeks : Cardinality({i \in 1..Len(rows) : rows[i].period = w}) = 1
           /\ \A i \in 1..Len(rows) :
                /\ rows[i].period \in weeks
                /\ rows[i].value.n = Len(WeekRows(hh, rows[i].period))
                /\ rows[i].value.sum = SumValues(WeekRows(hh, rows[i].period))

\* C10: every normalizer returns a frame ascending by period whose rows all
\* have a parsed period and a parsed value.
C10_NormalizedRows ==
    (nout # Pending /\ nout.status = "ok") =>
        /\ \A i \in 1..Len(nout.df) : nout.df[i].period # NaT /\ nout.df[i].value # NaN
        /\ \A i \in 1..(Len(nout.df) - 1) : nout.df[i].period <= nout.df[i + 1].period

\* How many rows of the frame equal r.
Count(df, r) == Cardinality({i \in 1..Len(df) : df[i] = r})

\* C11: for a window with start <= end, _clip keeps exactly the rows of the
\* frame whose period lies in [start, end], both ends included, and clipping
\* the result again with the same window changes nothing.
C11_ClipClosedIdempotent ==
    (/\ ParsesAsDate(cstart) /\ ParsesAsDate(cend)
     /\ ToDatetime(cstart) <= ToDatetime(cend)) =>
        /\ cout # Pending =>
            /\ cout.status = "ok"
            /\ \A r \in ClipRows :
                Count(cout.df, r) =
                    IF cstart.day <= r.period /\ r.period <= cend.day
                    THEN Count(cdf, r) ELSE 0
            /\ \A i \in 1..(Len(cout.df) - 1) : cout.df[i].period <= cout.df[i + 1].period
        /\ cout2 # Pending => cout2 = cout

\* C11 witness: a frame with a row on the start day, a row on the end day and
\* a row outside the window, clipped twice.
C11_Witness ==
    /\ cout2 # Pending
    /\ ParsesAsDate(cstart) /\ ParsesAsDate(cend)
    /\ cstart.day < cend.day
    /\ Len(cdf) = 3
    /\ Len(cout.df) = 2
    /\ cout.df[1].period = cstart.day
    /\ cout.df[2].period = cend.day

\* Rows of the grid whose cell in column d parses as a date and whose cell in
\* column v parses as a number (columns counted from 0).
PairScore(grid, d, v) ==
    Cardinality({i \in 1..NRows(grid) :
        ToDatetime(grid[d + 1][i]) # NaT /\ ToNumeric(grid[v + 1][i]) # NaN})

ColumnPairs(grid) ==
    {p \in (0..(Len(grid) - 1)) \X (0..(Len(grid) - 1)) : p[1] # p[2]}

NoPairReachesFloor(grid) ==
    \A p \in ColumnPairs(grid) : PairScore(grid, p[1], p[2]) < MinScore

\* Rows columns 0 and 1 yield as (date, value); none in a grid without them.
FallbackScore(grid) == IF Len(grid) < 2 THEN 0 ELSE PairScore(grid, 0, 1)

\* C12: on a grid in which no pair of distinct columns scores 10, the
\* spreadsheet and the HTML normalizer return the rows of columns 0 and 1 that
\* parse and raise nothing, whatever the shape of the grid.
C12_FallbackToFirstColumns ==
    nout # Pending =>
        /\ (nkind = "xls" /\ NoPairReachesFloor(npayload)) =>
            /\ nout.status = "ok"
            /\ Len(nout.df) = FallbackScore(npayload)
        /\ (/\ nkind = "html" /\ npayload # <<>>
            /\ \A t \in 1..Len(npayload) : NoPairReachesFloor(npayload[t])) =>
            /\ nout.status = "ok"
            /\ Len(npayload) = 1 => Len(nout.df) = FallbackScore(npayload[1])

\* Candidates of a page: <<table, date_idx, value_idx>>, tables counted from 1.
Candidates(tables) ==
    {c \in (1..Len(tables)) \X (0..MaxCols) \X (0..MaxCols) :
        <<c[2], c[3]>> \in ColumnPairs(tables[c[1]])}

CandidateScore(tables, c) == PairScore(tables[c[1]], c[2], c[3])

\* c is evaluated before e: an earlier table, or the same table and an earlier
\* pair of itertools.product.
EvaluatedBefore(tables, c, e) ==
    \/ c[1] < e[1]
    \/ c[1] = e[1] /\ c[2] * Len(tables[c[1]]) + c[3] < e[2] * Len(tables[e[1]]) + e[3]

\* c reaches the floor, no candidate scores more, and none evaluated before it
\* scores as much.
Selected(tables, c) ==
    /\ CandidateScore(tables, c) >= MinScore
    /\ \A e \in Candidates(tables) :
        /\ CandidateScore(tables, e) <= CandidateScore(tables, c)
        /\ EvaluatedBefore(tables, e, c) => CandidateScore(tables, e) < CandidateScore(tables, c)

\* The tables a normalizer searched: the one grid of a spreadsheet, or the
\* tables of a page.
Searched == IF nkind = "xls" THEN <<npayload>> ELSE npayload

\* C13: among the pairs of distinct columns scoring at least 10 the normalizer
\* returns the rows of the pair with the highest score, the first evaluated
\* among equal scores; for HTML that is one pair over all tables of the page.
C13_BestPairSelected ==
    (nout # Pending /\ nkind \in {"xls", "html"}) =>
        \A c \in Candidates(Searched) :
            Selected(Searched, c) =>
                nout = Returned(SortByPeriod(PairFrame(Searched[c[1]], c[2], c[3])))

\* C13 witness: columns 1 and 2 of a spreadsheet hold 15 dated values, no
\* other pair reaches 10, and the 15 rows are returned.
C13_Witness ==
    /\ nkind = "xls"
    /\ nout # Pending
    /\ Len(npayload) = 3
    /\ PairScore(npayload, 1, 2) = 15
    /\ \A p \in ColumnPairs(npayload) : p # <<1, 2>> => PairScore(npayload, p[1], p[2]) < MinScore
    /\ nout.status = "ok"
    /\ Len(nout.df) = 15
    /\ nout.df[1] = Row(1, 15)

====
